---- MODULE Spec2Model ----
(***************************************************************************)
(* Model of solana-wallet-analyzer/get_related_wallets.js:                 *)
(*   - determineTransactionType, the heuristic transaction classifier;     *)
(*   - the forEach callback of main that folds related addresses into      *)
(*     relatedAddressMap;                                                  *)
(*   - the signature loop of main.                                         *)
(*                                                                         *)
(* JavaScript values are represented as follows.  An optional value is a   *)
(* sequence of length 0 (undefined/null) or 1 (the value).  An optional    *)
(* string is the string itself, with "undefined" for an absent one.  A     *)
(* log line is a sequence of one-character strings.                        *)
(***************************************************************************)
EXTENDS Integers, Sequences, FiniteSets, TLC

VARIABLES
    pc,                 \* position of the running code
    transaction,        \* argument of determineTransactionType / fetched transaction
    sourceAddress,      \* the query address
    txInfo,             \* outcome of determineTransactionType
    signatures,         \* main: result of getSignaturesForAddress
    i,                  \* main: loop index (1-based here, 0-based in the code)
    relatedAddressMap,  \* main: address -> {sent, received}
    shouldLog,          \* main: --log flag
    parsedTransactions, \* main: transactions collected for the log file
    console,            \* main: one entry per per-transaction console line
    folded,             \* entries the forEach callback has been invoked with
    foldError           \* whether the forEach callback has signalled an error

vars == <<pc, transaction, sourceAddress, txInfo, signatures, i,
          relatedAddressMap, shouldLog, parsedTransactions, console,
          folded, foldError>>

---------------------------------------------------------------------------
(* Bounds of the model *)

MaxIx == 5
MaxField == 1
MaxSigs == 3
MaxFold == 3

---------------------------------------------------------------------------
(* Optional values *)

None == <<>>
Some(x) == <<x>>
Undefined == "undefined"

---------------------------------------------------------------------------
(* Program constants *)

knownSwapPrograms ==
    { "JUP6LkbZbjS1jKKwapdHNy74zcZ3tLUZoi5QNyVTaV4",
      "SwaPpA9LAaLfeLi3a68M4DjnLqgtticKg6CnyNwgAC8",
      "9W959DqEETiGZocYWCQPaJ6sBmUzgfxXfqGeTEdp3aQP",
      "CPMMoo8L3F4NbTegBCKVNunggL7H1ZpdTHKxQB5qKP1C",
      "6EF8rrecthR5Dkzon8Nwu78hRvfCKubJ14M5uBEwF6P" }

SYSTEM_PROGRAM == "11111111111111111111111111111111"
TOKEN_PROGRAM == "TokenkegQfeZyiNwAJbNbGKPFXCWuBvf9Ss623VQ5DA"
COMPUTE_BUDGET_PROGRAM == "ComputeBudget111111111111111111111111111111"
MaxBundledInstructions == 4
LAMPORTS_PER_SOL == 1000000000

---------------------------------------------------------------------------
(* Strings as character sequences: toLowerCase, join(' '), includes *)

UpperToLower ==
    [c \in {"S", "W", "A", "P", "E", "L", "B", "U", "Y", "T", "R", "D"} |->
        CASE c = "S" -> "s" [] c = "W" -> "w" [] c = "A" -> "a" [] c = "P" -> "p"
          [] c = "E" -> "e" [] c = "L" -> "l" [] c = "B" -> "b" [] c = "U" -> "u"
          [] c = "Y" -> "y" [] c = "T" -> "t" [] c = "R" -> "r" [] c = "D" -> "d"]

toLowerCase(str) ==
    [k \in 1..Len(str) |->
        IF str[k] \in DOMAIN UpperToLower THEN UpperToLower[str[k]] ELSE str[k]]

RECURSIVE join(_, _)
join(lines, sep) ==
    IF lines = <<>> THEN <<>>
    ELSE IF Len(lines) = 1 THEN lines[1]
    ELSE lines[1] \o sep \o join(Tail(lines), sep)

includes(str, sub) ==
    \E k \in 1..(Len(str) - Len(sub) + 1) : SubSeq(str, k, k + Len(sub) - 1) = sub

swapTerms ==
    { <<"s", "w", "a", "p">>,
      <<"e", "x", "c", "h", "a", "n", "g", "e">>,
      <<"t", "r", "a", "d", "e">>,
      <<"b", "u", "y">>,
      <<"s", "e", "l", "l">> }

---------------------------------------------------------------------------
(* Accessors with optional chaining *)

\* ix.programId?.toString()
programIdOf(ix) == ix.programId

\* ix.parsed?.type
parsedType(ix) == IF ix.parsed = None THEN Undefined ELSE ix.parsed[1].type

\* ix.parsed?.info
parsedInfo(ix) == IF ix.parsed = None THEN None ELSE ix.parsed[1].info

\* x?.length > 0
nonEmptyList(opt) == opt # None /\ Len(opt[1]) > 0

---------------------------------------------------------------------------
(* determineTransactionType *)

defaultResult ==
    [status |-> "returned", type |-> "unknown", relatedAddresses |-> <<>>,
     details |-> [k \in {} |-> Undefined]]

\* a TypeError raised while reading a property of undefined
typeError ==
    [status |-> "threw", type |-> "TypeError", relatedAddresses |-> <<>>,
     details |-> [k \in {} |-> Undefined]]

\* faulty variant: the check of transaction.message is left out
missingCriticalFieldsNoMessage(tx) ==
    \/ tx = None
    \/ tx[1].transaction = None

missingCriticalFields(tx) ==
    \/ tx = None
    \/ tx[1].transaction = None
    \/ tx[1].transaction[1].message = None

hasTokenBalanceChanges(tx) ==
    /\ tx[1].meta # None
    /\ \/ nonEmptyList(tx[1].meta[1].preTokenBalances)
       \/ nonEmptyList(tx[1].meta[1].postTokenBalances)

isComputeBudgetIx(ix) == programIdOf(ix) = COMPUTE_BUDGET_PROGRAM

isAdvanceNonceIx(ix) ==
    programIdOf(ix) = SYSTEM_PROGRAM /\ parsedType(ix) = "advanceNonce"

isSystemTransferIx(ix) ==
    programIdOf(ix) = SYSTEM_PROGRAM /\ parsedType(ix) = "transfer"

isTokenTransferIx(ix) ==
    /\ programIdOf(ix) = TOKEN_PROGRAM
    /\ parsedType(ix) \in {"transfer", "transferChecked"}

isSwapProgramIx(ix) == programIdOf(ix) \in knownSwapPrograms

isInnerSwapIx(ix) ==
    \/ /\ programIdOf(ix) = TOKEN_PROGRAM
       /\ ix.program = "spl-token"
       /\ parsedType(ix) \in {"transfer", "transferChecked"}
    \/ programIdOf(ix) \in knownSwapPrograms

\* instructions.find(...): the first system transfer, None when there is none
findTransferIx(instructions) ==
    IF \E k \in DOMAIN instructions : isSystemTransferIx(instructions[k])
    THEN Some(instructions[CHOOSE k \in DOMAIN instructions :
                 /\ isSystemTransferIx(instructions[k])
                 /\ \A j \in 1..(k - 1) : ~isSystemTransferIx(instructions[j])])
    ELSE None

\* faulty variant: off by one in the bundled-instruction limit
simpleTransferShapeBelowLimit(instructions) ==
    \/ Len(instructions) = 1
    \/ /\ Len(instructions) < MaxBundledInstructions
       /\ \/ (\E x \in DOMAIN instructions : isComputeBudgetIx(instructions[x]))
          \/ (\E x \in DOMAIN instructions : isAdvanceNonceIx(instructions[x]))

simpleTransferShape(instructions) ==
    \/ Len(instructions) = 1
    \/ /\ Len(instructions) <= MaxBundledInstructions
       /\ \/ (\E x \in DOMAIN instructions : isComputeBudgetIx(instructions[x]))
          \/ (\E x \in DOMAIN instructions : isAdvanceNonceIx(instructions[x]))

\* amount / 1e9 as an exact decimal: whole SOL and billionths
lamportsToSol(amount) ==
    [sol |-> amount \div LAMPORTS_PER_SOL, nanos |-> amount % LAMPORTS_PER_SOL]

\* amount ? amount / 1e9 : null
detailsAmount(amount) ==
    IF amount # None /\ amount[1] # 0 THEN Some(lamportsToSol(amount[1])) ELSE None

\* faulty variant: the destination is compared first
counterpartyDestinationFirst(source, destination, sourceAddressStr) ==
    IF source # Undefined /\ destination # Undefined
    THEN IF destination = sourceAddressStr
         THEN <<[address |-> source, direction |-> "received"]>>
         ELSE IF source = sourceAddressStr
              THEN <<[address |-> destination, direction |-> "sent"]>>
              ELSE <<>>
    ELSE <<>>

counterparty(source, destination, sourceAddressStr) ==
    IF source # Undefined /\ destination # Undefined
    THEN IF source = sourceAddressStr
         THEN <<[address |-> destination, direction |-> "sent"]>>
         ELSE IF destination = sourceAddressStr
              THEN <<[address |-> source, direction |-> "received"]>>
              ELSE <<>>
    ELSE <<>>

transferResult(transferIx, addr) ==
    LET info == parsedInfo(transferIx)
        source == IF info = None THEN Undefined ELSE info[1].source
        destination == IF info = None THEN Undefined ELSE info[1].destination
        amount == IF info = None THEN None ELSE info[1].lamports
    IN  [status |-> "returned",
         type |-> "transfer",
         relatedAddresses |-> counterparty(source, destination, addr),
         details |-> [source |-> source, destination |-> destination,
                      amount |-> detailsAmount(amount)]]

withType(t) == [defaultResult EXCEPT !.type = t]

\* faulty variant: the swap allowlist is not consulted
tokenRuleWithoutAllowlist(instructions) == withType("token_transfer")

tokenRule(instructions) ==
    IF \E x \in DOMAIN instructions : isSwapProgramIx(instructions[x])
    THEN withType("swap")
    ELSE withType("token_transfer")

logsMentionSwap(meta) ==
    /\ meta # None
    /\ meta[1].logMessages # None
    /\ LET logMessages == toLowerCase(join(meta[1].logMessages[1], <<" ">>))
       IN  \E term \in swapTerms : includes(logMessages, term)

\* the for-of loop over meta.innerInstructions, from group k on
RECURSIVE innerRule(_, _)
innerRule(groups, k) ==
    IF k > Len(groups) THEN defaultResult
    ELSE IF groups[k].instructions = None THEN typeError
    ELSE LET inner == groups[k].instructions[1]
         IN  IF \E x \in DOMAIN inner : isInnerSwapIx(inner[x])
             THEN withType("swap")
             ELSE innerRule(groups, k + 1)

fallbackRules(tx) ==
    IF logsMentionSwap(tx[1].meta) THEN withType("swap")
    ELSE IF tx[1].meta # None /\ tx[1].meta[1].innerInstructions # None
         THEN innerRule(tx[1].meta[1].innerInstructions[1], 1)
         ELSE defaultResult

\* transaction.transaction.message; None when a link of the chain is absent
messageOf(tx) ==
    IF tx = None THEN None
    ELSE IF tx[1].transaction = None THEN None
    ELSE tx[1].transaction[1].message

determineTransactionType(tx, addr) ==
    IF missingCriticalFields(tx) THEN defaultResult
    ELSE IF messageOf(tx) = None THEN typeError
    ELSE LET message == messageOf(tx)[1]
         IN  IF message.instructions = None THEN typeError
             ELSE LET instructions == message.instructions[1]
                      transferIx ==
                          IF simpleTransferShape(instructions)
                          THEN findTransferIx(instructions)
                          ELSE None
                  IN  IF transferIx # None /\ ~hasTokenBalanceChanges(tx)
                      THEN transferResult(transferIx[1], addr)
                      ELSE IF \E x \in DOMAIN instructions :
                                  isTokenTransferIx(instructions[x])
                           THEN tokenRule(instructions)
                           ELSE IF \E x \in DOMAIN instructions :
                                       isSwapProgramIx(instructions[x])
                                THEN withType("swap")
                                ELSE fallbackRules(tx)

---------------------------------------------------------------------------
(* Inputs: parsed transactions as getParsedTransaction delivers them, and  *)
(* partial ones                                                            *)

WalletA == "WalletA"
WalletB == "WalletB"
WalletC == "WalletC"
Wallets == {WalletA, WalletB, WalletC}

JUPITER == "JUP6LkbZbjS1jKKwapdHNy74zcZ3tLUZoi5QNyVTaV4"
RAYDIUM == "SwaPpA9LAaLfeLi3a68M4DjnLqgtticKg6CnyNwgAC8"
MEMO_PROGRAM == "MemoSq4gqABAXKb96qnH8TysNcWxMyWCqXgDLGmfcHr"

parsedIx(programId, program, type, info) ==
    [programId |-> programId, program |-> program,
     parsed |-> Some([type |-> type, info |-> info])]

rawIx(programId) ==
    [programId |-> programId, program |-> Undefined, parsed |-> None]

systemTransfer(source, destination, lamports) ==
    parsedIx(SYSTEM_PROGRAM, "system", "transfer",
             Some([source |-> source, destination |-> destination,
                   lamports |-> lamports]))

computeBudgetIx == rawIx(COMPUTE_BUDGET_PROGRAM)
advanceNonceIx == parsedIx(SYSTEM_PROGRAM, "system", "advanceNonce", None)
tokenTransferIx == parsedIx(TOKEN_PROGRAM, "spl-token", "transfer", None)
tokenTransferCheckedIx == parsedIx(TOKEN_PROGRAM, "spl-token", "transferChecked", None)
jupiterIx == rawIx(JUPITER)
memoIx == rawIx(MEMO_PROGRAM)

\* instructions of the long instruction lists
ixAlphabet ==
    { systemTransfer(WalletA, WalletB, Some(LAMPORTS_PER_SOL)),
      computeBudgetIx, advanceNonceIx, tokenTransferIx, tokenTransferCheckedIx,
      jupiterIx, memoIx }

\* instructions of the short instruction lists: every field varied
ixVariants ==
    ixAlphabet
    \cup { systemTransfer(s, d, Some(2 * LAMPORTS_PER_SOL)) :
              s \in Wallets \cup {Undefined}, d \in Wallets \cup {Undefined} }
    \cup { systemTransfer(WalletA, WalletB, l) :
              l \in {None, Some(0), Some(1), Some(1500000000)} }
    \cup { parsedIx(SYSTEM_PROGRAM, "system", "transfer", None),
           parsedIx(SYSTEM_PROGRAM, "system", "createAccount", None),
           rawIx(SYSTEM_PROGRAM),
           parsedIx(TOKEN_PROGRAM, "spl-token", "approve", None),
           parsedIx(MEMO_PROGRAM, "spl-memo", "transfer", None),
           rawIx(RAYDIUM),
           rawIx(Undefined) }

SeqsUpTo(S, n) == UNION { [1..k -> S] : k \in 0..n }

balanceLists == { None, Some(<<>>), Some(<<"balance">>) }

logLists ==
    { None,
      Some(<< <<"o", "k">> >>),
      Some(<< <<"o", "k">>, <<"S", "E", "L", "L">> >>),
      Some(<< <<"s", "e", "l">>, <<"l">> >>),
      Some(<< <<"T", "r", "a", "d", "e", "r">> >>) }

innerGroup(instructions) == [index |-> 0, instructions |-> instructions]

innerLists ==
    { None,
      Some(<< innerGroup(Some(<<memoIx>>)) >>),
      Some(<< innerGroup(None) >>),
      Some(<< innerGroup(Some(<<memoIx, tokenTransferIx>>)), innerGroup(None) >>),
      Some(<< innerGroup(Some(<<parsedIx(TOKEN_PROGRAM, Undefined, "transfer", None)>>)),
              innerGroup(Some(<<jupiterIx>>)) >>) }

metaOf(pre, post, logs, inner) ==
    Some([preTokenBalances |-> pre, postTokenBalances |-> post,
          logMessages |-> logs, innerInstructions |-> inner])

allMetas ==
    {None} \cup { metaOf(pre, post, logs, inner) :
                    pre \in balanceLists, post \in balanceLists,
                    logs \in logLists, inner \in innerLists }

coreMetas ==
    { None,
      metaOf(Some(<<>>), Some(<<>>), Some(<< <<"o", "k">> >>), Some(<<>>)),
      metaOf(Some(<<>>), Some(<<"balance">>), None, None),
      metaOf(None, None, Some(<< <<"B", "u", "y">> >>), None) }

txOf(instructions, meta) ==
    Some([transaction |-> Some([message |-> Some([instructions |-> instructions])]),
          meta |-> meta])

partialTxs ==
    { None,
      Some([transaction |-> None, meta |-> None]),
      Some([transaction |-> Some([message |-> None]), meta |-> None]),
      Some([transaction |-> None,
            meta |-> metaOf(None, None, Some(<< <<"S", "E", "L", "L">> >>), None)]),
      txOf(None, None),
      txOf(None, metaOf(None, None, Some(<< <<"S", "E", "L", "L">> >>), None)) }

---------------------------------------------------------------------------
(* The classifier applied to one input *)

idleTxInfo == [status |-> "none", type |-> "none", relatedAddresses |-> <<>>,
               details |-> [k \in {} |-> Undefined]]

InitClassify ==
    /\ pc = "call"
    /\ transaction = None
    /\ sourceAddress = WalletA
    /\ txInfo = idleTxInfo
    /\ signatures = <<>>
    /\ i = 1
    /\ relatedAddressMap = [a \in {} |-> [sent |-> 0, received |-> 0]]
    /\ shouldLog = FALSE
    /\ parsedTransactions = <<>>
    /\ console = <<>>
    /\ folded = <<>>
    /\ foldError = FALSE

queryAddresses == {WalletA, WalletB}

Classify(tx, addr) ==
    /\ transaction' = tx
    /\ sourceAddress' = addr
    /\ txInfo' = determineTransactionType(tx, addr)
    /\ pc' = "returned"
    /\ UNCHANGED <<signatures, i, relatedAddressMap, shouldLog,
                   parsedTransactions, console, folded, foldError>>

\* long instruction lists over the common instructions
ClassifyBundle ==
    pc = "call" /\
    \E n \in 0..MaxIx : \E ixs \in [1..n -> ixAlphabet] : \E meta \in coreMetas :
        Classify(txOf(Some(ixs), meta), WalletA)

\* short instruction lists with every field varied
ClassifyFields ==
    pc = "call" /\
    \E n \in 0..MaxField : \E ixs \in [1..n -> ixVariants] : \E meta \in allMetas :
        \E addr \in queryAddresses : Classify(txOf(Some(ixs), meta), addr)

\* null and partial transactions
ClassifyPartial ==
    pc = "call" /\
    \E tx \in partialTxs : \E addr \in queryAddresses : Classify(tx, addr)

NextClassify == ClassifyBundle \/ ClassifyFields \/ ClassifyPartial

SpecClassify == InitClassify /\ [][NextClassify]_vars

---------------------------------------------------------------------------
(* main: the forEach callback that folds one related address *)

emptyMap == [a \in {} |-> [sent |-> 0, received |-> 0]]

mapSet(map, key, value) ==
    [a \in DOMAIN map \cup {key} |-> IF a = key THEN value ELSE map[a]]

\* faulty variant: a received entry is counted as sent
foldAddressAlwaysSent(map, addrInfo) ==
    LET addrData == IF addrInfo.address \in DOMAIN map
                    THEN map[addrInfo.address]
                    ELSE [sent |-> 0, received |-> 0]
    IN  mapSet(map, addrInfo.address, [addrData EXCEPT !.sent = @ + 1])

foldAddress(map, addrInfo) ==
    LET addrData == IF addrInfo.address \in DOMAIN map
                    THEN map[addrInfo.address]
                    ELSE [sent |-> 0, received |-> 0]
        counted ==
            IF addrInfo.direction = "sent"
            THEN [addrData EXCEPT !.sent = @ + 1]
            ELSE IF addrInfo.direction = "received"
                 THEN [addrData EXCEPT !.received = @ + 1]
                 ELSE addrData
    IN  mapSet(map, addrInfo.address, counted)

\* the callback holds no throw statement
foldAddressThrows(addrInfo) == FALSE

RECURSIVE forEachFold(_, _)
forEachFold(map, relatedAddresses) ==
    IF relatedAddresses = <<>> THEN map
    ELSE forEachFold(foldAddress(map, Head(relatedAddresses)), Tail(relatedAddresses))

---------------------------------------------------------------------------
(* main: from getSignaturesForAddress to the summary *)

\* transactions as the RPC client delivers them: the instruction list and
\* every inner-instruction group are present
rpcInstructionLists ==
    { <<systemTransfer(WalletA, WalletB, Some(2 * LAMPORTS_PER_SOL))>>,
      <<systemTransfer(WalletC, WalletA, Some(2 * LAMPORTS_PER_SOL))>>,
      <<computeBudgetIx, systemTransfer(WalletA, WalletB, Some(1))>>,
      <<systemTransfer(WalletA, WalletA, Some(1))>>,
      <<systemTransfer(WalletB, WalletC, Some(1))>>,
      <<tokenTransferIx, jupiterIx>>,
      <<tokenTransferIx>>,
      <<memoIx>> }

rpcMeta == metaOf(Some(<<>>), Some(<<>>), Some(<< <<"o", "k">> >>), Some(<<>>))

rpcTransactions == { txOf(Some(ixs), rpcMeta) : ixs \in rpcInstructionLists }

Init ==
    /\ pc = "getSignatures"
    /\ transaction = None
    /\ sourceAddress = WalletA
    /\ txInfo = idleTxInfo
    /\ signatures = <<>>
    /\ i = 1
    /\ relatedAddressMap = emptyMap
    /\ shouldLog \in BOOLEAN
    /\ parsedTransactions = <<>>
    /\ console = <<>>
    /\ folded = <<>>
    /\ foldError = FALSE

\* getSignaturesForAddress returns n signatures
GetSignatures ==
    /\ pc = "getSignatures"
    /\ \E n \in 0..MaxSigs :
          /\ signatures' = [k \in 1..n |-> k]
          /\ pc' = IF n = 0 THEN "exit0" ELSE "loop"
    /\ UNCHANGED <<transaction, sourceAddress, txInfo, i, relatedAddressMap,
                   shouldLog, parsedTransactions, console, folded, foldError>>

\* getSignaturesForAddress throws
GetSignaturesFails ==
    /\ pc = "getSignatures"
    /\ pc' = "exit1"
    /\ UNCHANGED <<transaction, sourceAddress, txInfo, signatures, i,
                   relatedAddressMap, shouldLog, parsedTransactions, console,
                   folded, foldError>>

\* faulty variant: a failed fetch leaves the loop
FetchThrowsBreaks ==
    /\ pc = "loop"
    /\ i <= Len(signatures)
    /\ transaction' = None
    /\ console' = Append(console, [index |-> i, signature |-> signatures[i],
                                   line |-> "Error fetching transaction"])
    /\ i' = Len(signatures) + 1
    /\ UNCHANGED <<pc, sourceAddress, txInfo, signatures, relatedAddressMap,
                   shouldLog, parsedTransactions, folded, foldError>>

\* one iteration: getParsedTransaction throws
FetchThrows ==
    /\ pc = "loop"
    /\ i <= Len(signatures)
    /\ transaction' = None
    /\ console' = Append(console, [index |-> i, signature |-> signatures[i],
                                   line |-> "Error fetching transaction"])
    /\ i' = i + 1
    /\ UNCHANGED <<pc, sourceAddress, txInfo, signatures,
                   relatedAddressMap, shouldLog, parsedTransactions, folded,
                   foldError>>

\* one iteration: getParsedTransaction returns null
FetchNull ==
    /\ pc = "loop"
    /\ i <= Len(signatures)
    /\ transaction' = None
    /\ console' = Append(console, [index |-> i, signature |-> signatures[i],
                                   line |-> "Not found or failed to parse"])
    /\ i' = i + 1
    /\ UNCHANGED <<pc, sourceAddress, txInfo, signatures, relatedAddressMap,
                   shouldLog, parsedTransactions, folded, foldError>>

\* one iteration: getParsedTransaction returns tx, which is classified and folded
ProcessTransaction ==
    /\ pc = "loop"
    /\ i <= Len(signatures)
    /\ \E tx \in rpcTransactions :
          LET info == determineTransactionType(tx, sourceAddress)
          IN  /\ transaction' = tx
              /\ parsedTransactions' =
                    IF shouldLog THEN Append(parsedTransactions, tx)
                    ELSE parsedTransactions
              /\ txInfo' = info
              /\ IF info.status = "threw"
                 THEN /\ pc' = "rejected"
                      /\ UNCHANGED <<i, relatedAddressMap, console, folded>>
                 ELSE /\ relatedAddressMap' =
                            forEachFold(relatedAddressMap, info.relatedAddresses)
                      /\ folded' = folded \o info.relatedAddresses
                      /\ console' = Append(console,
                                        [index |-> i, signature |-> signatures[i],
                                         line |-> info.type])
                      /\ i' = i + 1
                      /\ pc' = pc
    /\ UNCHANGED <<sourceAddress, signatures, shouldLog, foldError>>

\* the loop is over: log file and summary
Finish ==
    /\ pc = "loop"
    /\ i > Len(signatures)
    /\ pc' = "done"
    /\ UNCHANGED <<transaction, sourceAddress, txInfo, signatures, i,
                   relatedAddressMap, shouldLog, parsedTransactions, console,
                   folded, foldError>>

Next ==
    \/ GetSignatures
    \/ GetSignaturesFails
    \/ FetchThrows
    \/ FetchNull
    \/ ProcessTransaction
    \/ Finish

Spec == Init /\ [][Next]_vars

\* every await of main settles: the loop keeps stepping
LiveSpec == Spec /\ WF_vars(Next)

---------------------------------------------------------------------------
(* The forEach callback applied to entries of any shape *)

foldEntries ==
    { [address |-> a, direction |-> d] :
        a \in Wallets, d \in {"sent", "received", "both", Undefined} }

InitFold ==
    /\ pc = "fold"
    /\ transaction = None
    /\ sourceAddress = WalletA
    /\ txInfo = idleTxInfo
    /\ signatures = <<>>
    /\ i = 1
    /\ relatedAddressMap = emptyMap
    /\ shouldLog = FALSE
    /\ parsedTransactions = <<>>
    /\ console = <<>>
    /\ folded = <<>>
    /\ foldError = FALSE

FoldOne ==
    /\ pc = "fold"
    /\ Len(folded) < MaxFold
    /\ \E addrInfo \in foldEntries :
          /\ relatedAddressMap' = foldAddress(relatedAddressMap, addrInfo)
          /\ folded' = Append(folded, addrInfo)
          /\ foldError' = (foldError \/ foldAddressThrows(addrInfo))
    /\ UNCHANGED <<pc, transaction, sourceAddress, txInfo, signatures, i,
                   shouldLog, parsedTransactions, console>>

NextFold == FoldOne

SpecFold == InitFold /\ [][NextFold]_vars

---------------------------------------------------------------------------
(* Vocabulary of the properties *)

\* the classifier has been called and has come back (by return or by throw)
Called == pc = "returned"

Returned == Called /\ txInfo.status = "returned"

\* the top-level instruction list of the classified transaction, if it has one
HasInstructions ==
    /\ transaction # None
    /\ transaction[1].transaction # None
    /\ transaction[1].transaction[1].message # None
    /\ transaction[1].transaction[1].message[1].instructions # None

Ixs == transaction[1].transaction[1].message[1].instructions[1]

TypeAt(k) == IF Ixs[k].parsed = None THEN Undefined ELSE Ixs[k].parsed[1].type

SystemTransferAt(k) == Ixs[k].programId = SYSTEM_PROGRAM /\ TypeAt(k) = "transfer"

TokenTransferAt(k) ==
    Ixs[k].programId = TOKEN_PROGRAM /\ TypeAt(k) \in {"transfer", "transferChecked"}

SwapProgramAt(k) == Ixs[k].programId \in knownSwapPrograms

BudgetOrNonceAt(k) ==
    \/ Ixs[k].programId = COMPUTE_BUDGET_PROGRAM
    \/ Ixs[k].programId = SYSTEM_PROGRAM /\ TypeAt(k) = "advanceNonce"

AbsentOrEmpty(list) == list = None \/ list[1] = <<>>

NoTokenBalanceChanges ==
    \/ transaction[1].meta = None
    \/ /\ AbsentOrEmpty(transaction[1].meta[1].preTokenBalances)
       /\ AbsentOrEmpty(transaction[1].meta[1].postTokenBalances)

\* the native-transfer rule, the first of the decision order, applies
NativeTransferRule ==
    /\ \/ Len(Ixs) = 1
       \/ Len(Ixs) <= 4 /\ \E k \in 1..Len(Ixs) : BudgetOrNonceAt(k)
    /\ \E k \in 1..Len(Ixs) : SystemTransferAt(k)
    /\ NoTokenBalanceChanges

EmptyObject == [k \in {} |-> Undefined]

---------------------------------------------------------------------------
(* C1: a result of type 'transfer' has at most one related address, which  *)
(* is never the query address itself; a result of type 'swap',             *)
(* 'token_transfer' or 'unknown' has no related address.                   *)
C1_RelatedAddressesInvariant ==
    Returned =>
        /\ txInfo.type = "transfer" =>
              /\ Len(txInfo.relatedAddresses) <= 1
              /\ \A k \in 1..Len(txInfo.relatedAddresses) :
                    txInfo.relatedAddresses[k].address # sourceAddress
        /\ txInfo.type \in {"swap", "token_transfer", "unknown"} =>
              txInfo.relatedAddresses = <<>>

---------------------------------------------------------------------------
HasTokenTransferAndSwapProgram ==
    /\ Called /\ HasInstructions
    /\ \E k \in 1..Len(Ixs) : TokenTransferAt(k)
    /\ \E k \in 1..Len(Ixs) : SwapProgramAt(k)

(* C2 as stated: a transaction whose top-level instructions hold both a    *)
(* token-program transfer/transferChecked and a swap-allowlist invocation  *)
(* is classified 'swap', whatever else it holds.                           *)
C2_TokenTransferWithSwapIsSwap_Original ==
    HasTokenTransferAndSwapProgram => Returned /\ txInfo.type = "swap"

(* C2 amended: such a transaction is classified 'swap' unless the          *)
(* native-transfer rule applies first (at most 4 instructions with a       *)
(* compute-budget or advance-nonce instruction, a system transfer among    *)
(* them, no token balance changes); then it is classified 'transfer'.      *)
C2_TokenTransferWithSwapIsSwap ==
    HasTokenTransferAndSwapProgram =>
        /\ Returned
        /\ txInfo.type = IF NativeTransferRule THEN "transfer" ELSE "swap"

C2_Witness ==
    /\ HasTokenTransferAndSwapProgram
    /\ ~NativeTransferRule
    /\ \E k \in 1..Len(Ixs) : SystemTransferAt(k)
    /\ txInfo.type = "swap"

---------------------------------------------------------------------------
SingleNativeTransfer ==
    /\ Called /\ HasInstructions
    /\ Len(Ixs) = 1
    /\ SystemTransferAt(1)
    /\ Ixs[1].parsed[1].info # None
    /\ Ixs[1].parsed[1].info[1].source # Undefined
    /\ Ixs[1].parsed[1].info[1].destination # Undefined

TransferFrom == Ixs[1].parsed[1].info[1].source
TransferTo == Ixs[1].parsed[1].info[1].destination

(* C3 as stated: a transaction with exactly one top-level instruction, a   *)
(* system transfer from A to B, is classified 'transfer' with the single   *)
(* related address {B, sent} when A is the query address and {A, received} *)
(* when B is the query address.                                            *)
C3_SingleTransferCounterparty_Original ==
    SingleNativeTransfer =>
        /\ Returned
        /\ txInfo.type = "transfer"
        /\ TransferFrom = sourceAddress =>
              txInfo.relatedAddresses =
                  <<[address |-> TransferTo, direction |-> "sent"]>>
        /\ TransferTo = sourceAddress =>
              txInfo.relatedAddresses =
                  <<[address |-> TransferFrom, direction |-> "received"]>>

(* C3 amended: a transaction with exactly one top-level instruction, a     *)
(* system transfer from A to B, and with no token balance changes is       *)
(* classified 'transfer' with the single related address {B, sent} when A  *)
(* is the query address, and {A, received} when B is the query address and *)
(* A is not.                                                               *)
C3_SingleTransferCounterparty ==
    (SingleNativeTransfer /\ NoTokenBalanceChanges) =>
        /\ Returned
        /\ txInfo.type = "transfer"
        /\ TransferFrom = sourceAddress =>
              txInfo.relatedAddresses =
                  <<[address |-> TransferTo, direction |-> "sent"]>>
        /\ (TransferTo = sourceAddress /\ TransferFrom # sourceAddress) =>
              txInfo.relatedAddresses =
                  <<[address |-> TransferFrom, direction |-> "received"]>>

C3_Witness ==
    /\ SingleNativeTransfer /\ NoTokenBalanceChanges
    /\ TransferTo = sourceAddress /\ TransferFrom = WalletC
    /\ txInfo.type = "transfer"
    /\ txInfo.relatedAddresses = <<[address |-> WalletC, direction |-> "received"]>>

---------------------------------------------------------------------------
(* C4: determineTransactionType never raises; on a malformed or partial    *)
(* transaction it returns a result instead of throwing.                    *)
C4_NeverRaises == Called => txInfo.status = "returned"

---------------------------------------------------------------------------
MissingMessage ==
    \/ transaction = None
    \/ transaction[1].transaction = None
    \/ transaction[1].transaction[1].message = None

(* C5: for a null transaction, or one whose transaction field or           *)
(* transaction.message field is absent, the result is exactly              *)
(* {type: 'unknown', relatedAddresses: [], details: {}} and nothing is     *)
(* raised.                                                                 *)
C5_MissingMessageIsUnknown ==
    (Called /\ MissingMessage) =>
        txInfo = [status |-> "returned", type |-> "unknown",
                  relatedAddresses |-> <<>>, details |-> EmptyObject]

C5_Witness ==
    /\ Called
    /\ transaction # None
    /\ transaction[1].transaction # None
    /\ transaction[1].transaction[1].message = None
    /\ txInfo.type = "unknown"

---------------------------------------------------------------------------
HoldsNativeTransfer ==
    /\ Called /\ HasInstructions
    /\ NoTokenBalanceChanges
    /\ \E k \in 1..Len(Ixs) : SystemTransferAt(k)

(* C8: a transaction with no token balance changes that holds a system     *)
(* transfer instruction is classified 'transfer' exactly when it has 1     *)
(* top-level instruction, or at most 4 with a compute-budget or            *)
(* advance-nonce instruction among them.                                   *)
C8_TransferShape ==
    HoldsNativeTransfer =>
        ( (Returned /\ txInfo.type = "transfer")
          <=> \/ Len(Ixs) = 1
              \/ Len(Ixs) <= 4 /\ \E k \in 1..Len(Ixs) : BudgetOrNonceAt(k) )

C8_Witness ==
    /\ HoldsNativeTransfer
    /\ Len(Ixs) = 2
    /\ Ixs[1].programId = COMPUTE_BUDGET_PROGRAM
    /\ txInfo.type = "transfer"

---------------------------------------------------------------------------
FirstTransfer ==
    Ixs[CHOOSE k \in 1..Len(Ixs) :
            SystemTransferAt(k) /\ \A j \in 1..(k - 1) : ~SystemTransferAt(j)]

(* C9: when the result is 'transfer' and the transfer instruction carries  *)
(* an integer lamports value L >= 0, details.amount is L / 1e9, a number,  *)
(* for every L including 0.                                                *)
C9_AmountIsLamportsOverBillion ==
    ( /\ Returned /\ HasInstructions
      /\ txInfo.type = "transfer"
      /\ FirstTransfer.parsed[1].info # None
      /\ FirstTransfer.parsed[1].info[1].lamports # None )
    => LET L == FirstTransfer.parsed[1].info[1].lamports[1]
       IN  /\ txInfo.details.amount # None
           /\ txInfo.details.amount[1].sol * 1000000000
                + txInfo.details.amount[1].nanos = L
           /\ txInfo.details.amount[1].nanos \in 0..999999999

---------------------------------------------------------------------------
FoldedCount(X, direction) ==
    Cardinality({ k \in 1..Len(folded) :
                    folded[k] = [address |-> X, direction |-> direction] })

RECURSIVE RelatedOfAll(_)
RelatedOfAll(txs) ==
    IF txs = <<>> THEN <<>>
    ELSE determineTransactionType(Head(txs), sourceAddress).relatedAddresses
            \o RelatedOfAll(Tail(txs))

EndToEndTransactions ==
    << txOf(Some(<<systemTransfer(WalletA, WalletB, Some(2000000000))>>), rpcMeta),
       txOf(Some(<<systemTransfer(WalletC, WalletA, Some(2000000000))>>), rpcMeta),
       txOf(Some(<<tokenTransferIx, jupiterIx>>), rpcMeta) >>

IsClassification(entry) ==
    entry.line \in {"transfer", "token_transfer", "swap", "unknown"}

(* C6: the ledger holds, for every address X, a sent count equal to the    *)
(* number of folded {X, sent} pairs and a received count equal to the      *)
(* number of folded {X, received} pairs, and no other address; the         *)
(* sequence [transfer query->B, transfer C->query, swap] gives exactly     *)
(* {B: {sent 1, received 0}, C: {sent 0, received 1}}.                     *)
C6_LedgerCountsFoldedPairs ==
    /\ DOMAIN relatedAddressMap = { folded[k].address : k \in 1..Len(folded) }
    /\ \A X \in DOMAIN relatedAddressMap :
          /\ relatedAddressMap[X].sent = FoldedCount(X, "sent")
          /\ relatedAddressMap[X].received = FoldedCount(X, "received")
    /\ shouldLog => folded = RelatedOfAll(parsedTransactions)
    /\ (pc = "done" /\ parsedTransactions = EndToEndTransactions) =>
          /\ relatedAddressMap =
                [X \in {WalletB, WalletC} |->
                    IF X = WalletB THEN [sent |-> 1, received |-> 0]
                    ELSE [sent |-> 0, received |-> 1]]
          /\ LET lines == SelectSeq(console, IsClassification)
             IN  [k \in 1..Len(lines) |-> lines[k].line]
                    = <<"transfer", "transfer", "swap">>

C6_Witness ==
    /\ pc = "done"
    /\ parsedTransactions = EndToEndTransactions
    /\ DOMAIN relatedAddressMap = {WalletB, WalletC}

---------------------------------------------------------------------------
(* C7: folding an entry whose direction tag is neither 'sent' nor          *)
(* 'received' signals an invalid-input error, and the ledger never gains   *)
(* an address with both counts zero from such an entry.                    *)
C7_MalformedDirectionRejected ==
    /\ (\E k \in 1..Len(folded) : folded[k].direction \notin {"sent", "received"})
          => foldError
    /\ \A X \in DOMAIN relatedAddressMap :
          relatedAddressMap[X].sent + relatedAddressMap[X].received > 0

---------------------------------------------------------------------------
IsSkip(entry) ==
    entry.line \in {"Error fetching transaction", "Not found or failed to parse"}

HandledInOrder ==
    /\ Len(console) <= Len(signatures)
    /\ \A k \in 1..Len(console) :
          console[k].index = k /\ console[k].signature = signatures[k]
    /\ pc = "loop" => Len(console) = i - 1
    /\ pc = "done" => Len(console) = Len(signatures)

SkipLeavesLedger ==
    (Len(console') = Len(console) + 1 /\ IsSkip(console'[Len(console')]))
        => /\ relatedAddressMap' = relatedAddressMap
           /\ folded' = folded
           /\ i' = i + 1
           /\ pc' = "loop"

(* C10: the loop handles every fetched signature exactly once, in list     *)
(* order, and then terminates; a signature whose fetch throws or returns   *)
(* null is skipped without retry, leaves the ledger unchanged, and the     *)
(* signatures after it are still handled.                                  *)
C10_EverySignatureHandledOnce ==
    /\ []HandledInOrder
    /\ [][SkipLeavesLedger]_vars
    /\ <>(pc \in {"done", "exit0", "exit1"})

C10_Witness ==
    /\ pc = "done"
    /\ Len(console) = 3
    /\ console[1].line = "Error fetching transaction"
    /\ console[2].line = "Not found or failed to parse"
    /\ console[3].line = "transfer"
    /\ relatedAddressMap # emptyMap

====
